---- MODULE Spec2Model ----
(***************************************************************************)
(* memory_pages: the permission-typed page region (Pages, src/src/lib.rs)  *)
(* and the sequence container built on it (PagedVec, src/src/paged_vec.rs) *)
(* as one state machine.  One run of the machine is the life of one        *)
(* object: a Pages region or a PagedVec, from construction to drop, panic  *)
(* or crash.  The kernel (mmap/mprotect/mremap/munmap, or the Win32        *)
(* calls) is part of the state: its mapping table, and on unix the         *)
(* thread's errno.  fnrefs counts what was taken out of an executable      *)
(* region: the FnRef handles alive, the shared borrows of the region they  *)
(* hold, and the bare function pointers copied out of them.                *)
(***************************************************************************)
EXTENDS Integers, Sequences, FiniteSets, TLC

VARIABLES platform, build, obj, phase, pages, kernel, vec, ledger, op, fnrefs

vars == <<platform, build, obj, phase, pages, kernel, vec, ledger, op, fnrefs>>

(***************************************************************************)
(* Program constants.                                                      *)
(***************************************************************************)
PAGE_SIZE == 4096

PAGE_NOACCESS == 1

PAGE_READONLY == 2

PAGE_READWRITE == 4

PAGE_EXECUTE == 16

PAGE_EXECUTE_READ == 32

PAGE_EXECUTE_READWRITE == 64

\* errno values the kernel leaves behind on a failed call
EACCES == 13

ENOMEM == 12

EINVAL == 22

\* Cargo features: allow_exec is on in the modelled build (the crate's tests
\* need it), deny_xw is the default feature
FeatureAllowExec == TRUE

FeatureDenyXw == TRUE

(***************************************************************************)
(* Bounds of the model.                                                    *)
(***************************************************************************)
\* largest byte length a region is asked to have
MaxBytes == 8192

\* how many elements are pushed on a PagedVec over its life
MaxElems == 2

\* how many FnRef handles, and how many bare function pointers, are held at
\* a time
MaxRefs == 2

\* sizeof(T) of the element types tried: a page, one that does not divide
\* the page size, and one that divides it
ElemSizes == {4096, 3000, 2048}

\* the lengths Pages::new and Pages::resize are called with
Lengths == {0, 256, 4096, 4660, 32768}

\* the lengths Pages::resize is called with
NewSizes == {0, 4660, 8192}

\* the capacities PagedVec::new is called with
Capacities == {0, 1, 2}

Min(a, b) == IF a < b THEN a ELSE b

Max(a, b) == IF a > b THEN a ELSE b

(***************************************************************************)
(* Permission triples and their platform encodings.                        *)
(***************************************************************************)
Perms == [r : BOOLEAN, w : BOOLEAN, e : BOOLEAN]

RWnoX == [r |-> TRUE, w |-> TRUE, e |-> FALSE]

\* Pages::bitmask (unix): R::bitmask() | W::bitmask() | E::bitmask()
bitmask(p) ==
    (IF p.r THEN 1 ELSE 0) + (IF p.w THEN 2 ELSE 0) + (IF p.e THEN 4 ELSE 0)

\* flProtect with write-and-execute mapped to a value that drops the write
flProtect_drops_write(p) ==
    LET mask == (IF p.r THEN 1 ELSE 0) + (IF p.w THEN 2 ELSE 0)
                + (IF p.e THEN 4 ELSE 0)
    IN  CASE mask = 0 -> PAGE_NOACCESS
          [] mask = 1 -> PAGE_READONLY
          [] mask = 2 -> PAGE_READWRITE
          [] mask = 3 -> PAGE_READWRITE
          [] mask = 4 -> PAGE_EXECUTE
          [] mask = 5 -> PAGE_EXECUTE_READ
          [] mask = 6 -> PAGE_EXECUTE_READ
          [] mask = 7 -> PAGE_EXECUTE_READWRITE

\* Pages::flProtect (windows)
flProtect(p) ==
    LET mask == (IF p.r THEN 1 ELSE 0) + (IF p.w THEN 2 ELSE 0)
                + (IF p.e THEN 4 ELSE 0)
    IN  CASE mask = 0 -> PAGE_NOACCESS
          [] mask = 1 -> PAGE_READONLY
          [] mask = 2 -> PAGE_READWRITE
          [] mask = 3 -> PAGE_READWRITE
          [] mask = 4 -> PAGE_EXECUTE
          [] mask = 5 -> PAGE_EXECUTE_READ
          [] mask = 6 -> PAGE_EXECUTE_READWRITE
          [] mask = 7 -> PAGE_EXECUTE_READWRITE

\* the protection value the build hands to the kernel for a triple
ProtOf(p) == IF platform = "unix" THEN bitmask(p) ELSE flProtect(p)

next_page_boundary_plus_one(size) == (size \div PAGE_SIZE + 1) * PAGE_SIZE

next_page_boundary(size) == ((size + PAGE_SIZE - 1) \div PAGE_SIZE) * PAGE_SIZE

(***************************************************************************)
(* The kernel: the places of the address space where it puts a mapping,    *)
(* and on unix errno.  A place keeps whether a mapping is there, its       *)
(* (page-granular) length and its protection.  badFree records a release   *)
(* call on a place that holds no mapping (a second release).               *)
(***************************************************************************)
\* the kernel's own rounding of a requested length to whole pages
PAGE_ALIGN(n) == ((n + PAGE_SIZE - 1) \div PAGE_SIZE) * PAGE_SIZE

\* two places are enough: a relocation or a copy goes to the other one
Places == {1, 2}

\* the address of a place: page aligned, never null, places do not overlap
BaseOf(b) == b * 16 * PAGE_SIZE

PlaceOf(ptr) == ptr \div (16 * PAGE_SIZE)

\* the offsets of a mapping whose bytes are followed, and the values a byte
\* is given by a store; fresh kernel memory reads as zero
Probes == {0, 4659, 8191}

Stores == {171}

NoBytes == [o \in Probes |-> 0]

\* the bytes of a mapping cut to klen bytes: what lies past the end is gone
KeepBytes(mem, klen) == [o \in Probes |-> IF o < klen THEN mem[o] ELSE 0]

Unmapped == [klen |-> 0, prot |-> 0, live |-> FALSE, mem |-> NoBytes]

\* where the kernel puts the next mapping: the lowest place that is free
FreshPlace(k) ==
    CHOOSE b \in Places :
        /\ ~k.maps[b].live
        /\ \A c \in Places : ~k.maps[c].live => b <= c

FreshBase(k) == BaseOf(FreshPlace(k))

\* an allocation whose fresh pages carry the bytes of an earlier use
k_alloc_dirty(k, len, prot, ok) ==
    IF ok /\ len > 0
    THEN [k EXCEPT !.maps[FreshPlace(k)] =
                      [klen |-> PAGE_ALIGN(len), prot |-> prot, live |-> TRUE,
                       mem |-> [o \in Probes |-> 171]]]
    ELSE [k EXCEPT !.errno = IF platform = "unix"
                             THEN (IF len = 0 THEN EINVAL ELSE ENOMEM)
                             ELSE @]

\* mmap / VirtualAlloc: a fresh private anonymous mapping, or a failure
k_alloc(k, len, prot, ok) ==
    IF ok /\ len > 0
    THEN [k EXCEPT !.maps[FreshPlace(k)] =
                      [klen |-> PAGE_ALIGN(len), prot |-> prot, live |-> TRUE,
                       mem |-> NoBytes]]
    ELSE [k EXCEPT !.errno = IF platform = "unix"
                             THEN (IF len = 0 THEN EINVAL ELSE ENOMEM)
                             ELSE @]

\* mprotect / VirtualProtect over the whole mapping at ptr
k_protect(k, ptr, prot, ok) ==
    IF ok
    THEN [k EXCEPT !.maps[PlaceOf(ptr)].prot = prot]
    ELSE [k EXCEPT !.errno = IF platform = "unix" THEN EACCES ELSE @]

\* munmap / VirtualFree of the mapping at ptr
k_free(k, ptr, ok) ==
    IF ~k.maps[PlaceOf(ptr)].live
    THEN [k EXCEPT !.badFree = TRUE]
    ELSE IF ok
    THEN [k EXCEPT !.maps[PlaceOf(ptr)] = Unmapped]
    ELSE [k EXCEPT !.errno = IF platform = "unix" THEN EINVAL ELSE @]

\* mremap(ptr, old, new_size, MREMAP_MAYMOVE): the same mapping with a new
\* length, at its old base or (only when it grows) at a fresh one
k_mremap(k, ptr, new_size, ok, move) ==
    IF ok /\ new_size > 0
    THEN LET b == PlaceOf(ptr)
             grows == PAGE_ALIGN(new_size) > k.maps[b].klen
             m == [k.maps[b] EXCEPT !.klen = PAGE_ALIGN(new_size),
                                    !.mem = KeepBytes(@, PAGE_ALIGN(new_size))]
         IN  IF move /\ grows
             THEN [k EXCEPT !.maps[FreshPlace(k)] = m, !.maps[b] = Unmapped]
             ELSE [k EXCEPT !.maps[b] = m]
    ELSE [k EXCEPT !.errno = IF new_size = 0 THEN EINVAL ELSE ENOMEM]

\* the address mremap returns when it succeeds
k_mremap_ret(k, ptr, new_size, move) ==
    IF move /\ PAGE_ALIGN(new_size) > k.maps[PlaceOf(ptr)].klen
    THEN FreshBase(k) ELSE ptr

\* the length the kernel holds for the mapping at ptr
KLen(k, ptr) == k.maps[PlaceOf(ptr)].klen

\* the bytes of the mapping at ptr
Mem(k, ptr) == k.maps[PlaceOf(ptr)].mem

\* whether a load from a mapping of protection prot faults (TRUE) or not:
\* unix leaves it to the hardware whether PROT_WRITE or PROT_EXEC alone
\* allow a load
LoadFaults(prot) ==
    IF platform = "unix"
    THEN (IF prot % 2 = 1 THEN {FALSE} ELSE IF prot = 0 THEN {TRUE} ELSE BOOLEAN)
    ELSE (IF prot \in {PAGE_READONLY, PAGE_READWRITE, PAGE_EXECUTE_READ,
                       PAGE_EXECUTE_READWRITE}
          THEN {FALSE} ELSE {TRUE})

\* whether a store to a mapping of protection prot faults
StoreFaults(prot) ==
    IF platform = "unix"
    THEN (IF (prot \div 2) % 2 = 1 THEN {FALSE} ELSE {TRUE})
    ELSE (IF prot \in {PAGE_READWRITE, PAGE_EXECUTE_READWRITE}
          THEN {FALSE} ELSE {TRUE})

\* whether a call into a mapping of protection prot faults: unix leaves it
\* to the hardware whether a readable page can be executed
ExecFaults(prot) ==
    IF platform = "unix"
    THEN (IF (prot \div 4) % 2 = 1 THEN {FALSE}
          ELSE IF prot = 0 THEN {TRUE} ELSE BOOLEAN)
    ELSE (IF prot \in {PAGE_EXECUTE, PAGE_EXECUTE_READ, PAGE_EXECUTE_READWRITE}
          THEN {FALSE} ELSE {TRUE})

\* the copy of the first n bytes of the mapping at src into the one at dst
k_copy(k, dst, src, n) ==
    [k EXCEPT !.maps[PlaceOf(dst)].mem =
        [o \in Probes |-> IF o < n THEN Mem(k, src)[o] ELSE @[o]]]

\* whether the kernel accepts posix_madvise(addr, len, MADV_DONTNEED) or
\* DiscardVirtualMemory(addr, len): addr is page aligned and the range lies
\* in one mapping; DiscardVirtualMemory also wants len to be a positive
\* multiple of the page size
k_can_discard(k, addr, len) ==
    /\ addr % PAGE_SIZE = 0
    /\ PlaceOf(addr) \in Places
    /\ k.maps[PlaceOf(addr)].live
    /\ addr + len <= BaseOf(PlaceOf(addr)) + k.maps[PlaceOf(addr)].klen
    /\ platform = "windows" => (len > 0 /\ len % PAGE_SIZE = 0)

\* the pages of [addr, addr + len) given back: their bytes read as zero the
\* next time they are touched
k_discard(k, addr, len) ==
    [k EXCEPT !.maps[PlaceOf(addr)].mem =
        [o \in Probes |->
            IF BaseOf(PlaceOf(addr)) + o >= addr
               /\ BaseOf(PlaceOf(addr)) + o < PAGE_ALIGN(addr + len)
            THEN 0 ELSE @[o]]]

(***************************************************************************)
(* Pages                                                                   *)
(***************************************************************************)
NoPages == [ptr |-> 0, len |-> 0, perm |-> [r |-> FALSE, w |-> FALSE, e |-> FALSE]]

NoVec == [len |-> 0, esize |-> 0, slots |-> <<>>]

NoRefs == [handles |-> 0, borrows |-> 0, raw |-> 0]

\* no FnRef borrows the region: what the borrow checker asks of a caller
\* that moves the region (self by value) or takes it by &mut self
NoBorrow == fnrefs.borrows = 0

\* what the last operation was: its name, its argument (for a transition:
\* the region it consumed), how it ended ("ok",
\* "err", "none", "panic", "crash"), the kernel calls it issued in order
\* (those of the unwinding after a panic included), and the byte range
\* <<address, length>> it handed to an advise call
\* ret is <<v>> when the operation returned the pointer or the byte v
OpV(name, arg, outcome, calls, range, ret) ==
    [name |-> name, arg |-> arg, outcome |-> outcome, calls |-> calls,
     range |-> range, ret |-> ret]

OpR(name, arg, outcome, calls, range) == OpV(name, arg, outcome, calls, range, <<>>)

Op(name, arg, outcome, calls) == OpR(name, arg, outcome, calls, <<0, 0>>)

\* a kernel call an operation issued, with the kernel's answer
Call(name, ok) == <<name, ok>>

AllocCall == IF platform = "unix" THEN "mmap" ELSE "VirtualAlloc"

ProtectCall == IF platform = "unix" THEN "mprotect" ELSE "VirtualProtect"

FreeCall == IF platform = "unix" THEN "munmap" ELSE "VirtualFree"

AdviseCall == IF platform = "unix" THEN "posix_madvise" ELSE "DiscardVirtualMemory"

\* Pages::new_native without its assert_ne!(length, 0)
new_native_no_assert(k, perm, length, ok) ==
    LET len == next_page_boundary(length)
        req == IF platform = "unix" THEN len ELSE length
        k1  == k_alloc(k, req, ProtOf(perm), ok)
        got == ok /\ req > 0
    IN  [panicked |-> ~got,
         pages |-> IF got THEN [ptr |-> FreshBase(k), len |-> len, perm |-> perm]
                   ELSE NoPages,
         k |-> k1,
         calls |-> <<Call(AllocCall, got)>>]

\* Pages::new_native (unix: mmap of the rounded length; windows: VirtualAlloc
\* of the requested length).  ok is the kernel's answer.
new_native(k, perm, length, ok) ==
    IF length = 0
    THEN [panicked |-> TRUE, pages |-> NoPages, k |-> k, calls |-> <<>>]
    ELSE LET len == next_page_boundary(length)
             req == IF platform = "unix" THEN len ELSE length
             k1  == k_alloc(k, req, ProtOf(perm), ok)
             got == ok /\ req > 0
         IN  [panicked |-> ~got,
              pages |-> IF got
                        THEN [ptr |-> FreshBase(k), len |-> len, perm |-> perm]
                        ELSE NoPages,
              k |-> k1,
              calls |-> <<Call(AllocCall, got)>>]

\* Drop for Pages that lets a failed release call pass
drop_pages_silent(k, pg, ok) ==
    [panicked |-> FALSE, k |-> k_free(k, pg.ptr, ok), calls |-> <<Call(FreeCall, ok)>>]

\* Drop for Pages: one release call; a failure panics
drop_pages(k, pg, ok) ==
    [panicked |-> ~ok, k |-> k_free(k, pg.ptr, ok), calls |-> <<Call(FreeCall, ok)>>]

\* Pages::set_prot on a region already carrying its new type.
\* unix: panics when mprotect(..) != -1 && erno() != 0; windows: when
\* VirtualProtect returns 0.
set_prot(k, res, ok) ==
    LET k1  == k_protect(k, res.ptr, ProtOf(res.perm), ok)
        ret == IF platform = "unix" THEN (IF ok THEN 0 ELSE -1)
               ELSE (IF ok THEN 1 ELSE 0)
    IN  [panicked |-> IF platform = "unix"
                      THEN ret # -1 /\ k1.errno # 0
                      ELSE ret = 0,
         k |-> k1,
         calls |-> <<Call(ProtectCall, ok)>>]

\* Pages::new::<R, W, E>(length)
PagesNew ==
    /\ obj = "none"
    /\ \E perm \in Perms, length \in Lengths, ok \in BOOLEAN :
         /\ perm.e => FeatureAllowExec
         /\ LET n == new_native(kernel, perm, length, ok)
            IN  /\ obj' = "pages"
                /\ phase' = IF n.panicked THEN "panicked" ELSE "live"
                /\ pages' = n.pages
                /\ kernel' = n.k
                /\ op' = Op("new", length,
                            IF n.panicked THEN "panic" ELSE "ok", n.calls)
    /\ UNCHANGED <<fnrefs, platform, build, vec, ledger>>

\* what unwinding does to a region the panicking frame (or its caller) still
\* owns: drops it, which issues its one release call (a failure of that call
\* would be a panic while panicking, which aborts the process)
unwind_pages(k, pg) == k_free(k, pg.ptr, TRUE)

\* Pages::into_prot with the consumed region dropped at the end of the call
\* instead of forgotten
into_prot_no_forget(name, T) ==
    /\ obj = "pages" /\ phase = "live"
    /\ NoBorrow
    /\ T.e => FeatureAllowExec
    /\ \E ok \in BOOLEAN :
         LET res  == [pages EXCEPT !.perm = T]
             same == ProtOf(pages.perm) = ProtOf(T)
             sp   == set_prot(kernel, res, ok)
             d    == drop_pages(IF same THEN kernel ELSE sp.k, pages, TRUE)
         IN  /\ same => ok
             /\ pages' = res
             /\ phase' = IF (~same /\ sp.panicked) \/ d.panicked
                         THEN "panicked" ELSE "live"
             /\ kernel' = d.k
             /\ op' = Op(name, pages, IF phase' = "live" THEN "ok" ELSE "panic",
                         (IF same THEN <<>> ELSE sp.calls) \o d.calls)
    /\ UNCHANGED <<fnrefs, platform, build, obj, vec, ledger>>

\* Pages::into_prot calling set_prot whether or not the protection value
\* changes
into_prot_no_elide(name, T) ==
    /\ obj = "pages" /\ phase = "live"
    /\ NoBorrow
    /\ T.e => FeatureAllowExec
    /\ \E ok \in BOOLEAN :
         LET res  == [pages EXCEPT !.perm = T]
             sp   == set_prot(kernel, res, ok)
         IN  /\ pages' = res
             /\ IF sp.panicked
                THEN /\ phase' = "panicked"
                     /\ kernel' = unwind_pages(sp.k, res)
                     /\ op' = Op(name, pages, "panic", sp.calls \o <<Call(FreeCall, TRUE)>>)
                ELSE /\ phase' = "live"
                     /\ kernel' = sp.k
                     /\ op' = Op(name, pages, "ok", sp.calls)
    /\ UNCHANGED <<fnrefs, platform, build, obj, vec, ledger>>

\* Pages::into_prot::<TR, TW, TE>: the region moves into the new type (the
\* old value is forgotten, not dropped); the kernel is called only when the
\* platform protection value changes.  A panic in set_prot unwinds through
\* res, which is dropped.
into_prot(name, T) ==
    /\ obj = "pages" /\ phase = "live"
    /\ NoBorrow
    /\ T.e => FeatureAllowExec
    /\ \E ok \in BOOLEAN :
         LET res  == [pages EXCEPT !.perm = T]
             same == ProtOf(pages.perm) = ProtOf(T)
             sp   == set_prot(kernel, res, ok)
         IN  /\ same => ok
             /\ pages' = res
             /\ IF same
                THEN /\ phase' = "live"
                     /\ kernel' = kernel
                     /\ op' = Op(name, pages, "ok", <<>>)
                ELSE IF sp.panicked
                THEN /\ phase' = "panicked"
                     /\ kernel' = unwind_pages(sp.k, res)
                     /\ op' = Op(name, pages, "panic", sp.calls \o <<Call(FreeCall, TRUE)>>)
                ELSE /\ phase' = "live"
                     /\ kernel' = sp.k
                     /\ op' = Op(name, pages, "ok", sp.calls)
    /\ UNCHANGED <<fnrefs, platform, build, obj, vec, ledger>>

allow_read == into_prot("allow_read", [pages.perm EXCEPT !.r = TRUE])

deny_read == into_prot("deny_read", [pages.perm EXCEPT !.r = FALSE])

allow_write == into_prot("allow_write", [pages.perm EXCEPT !.w = TRUE])

deny_write == into_prot("deny_write", [pages.perm EXCEPT !.w = FALSE])

\* allow_write_no_exec returning Pages<R, AllowWrite, E>
allow_write_keeps_exec ==
    into_prot("allow_write_no_exec", [pages.perm EXCEPT !.w = TRUE])

allow_write_no_exec ==
    into_prot("allow_write_no_exec", [pages.perm EXCEPT !.w = TRUE, !.e = FALSE])

allow_exec ==
    /\ FeatureAllowExec
    /\ into_prot("allow_exec", [pages.perm EXCEPT !.e = TRUE])

set_protected_exec ==
    /\ FeatureAllowExec
    /\ into_prot("set_protected_exec", [pages.perm EXCEPT !.w = FALSE, !.e = TRUE])

deny_exec ==
    /\ FeatureAllowExec
    /\ into_prot("deny_exec", [pages.perm EXCEPT !.e = FALSE])

\* Pages::resize(new_size) on the region pg.
\* unix: mremap with MREMAP_MAYMOVE, then self.ptr = ptr, self.len = new_size.
\* elsewhere: a fresh region of new_size, the prefix copied, *self = copy
\* (which drops the old region).
\* ok is the kernel's answer to mremap or to the allocation; alt says, on
\* unix, whether the kernel relocates a growing mapping and, elsewhere,
\* whether the release of the old region succeeds.
resize(k, pg, new_size, ok, alt) ==
    IF platform = "unix"
    THEN LET k1  == k_mremap(k, pg.ptr, new_size, ok, alt)
             got == ok /\ new_size > 0
         IN  [panicked |-> ~got,
              pages |-> IF got
                        THEN [pg EXCEPT !.ptr = k_mremap_ret(k, pg.ptr, new_size, alt),
                                        !.len = new_size]
                        ELSE pg,
              k |-> k1,
              calls |-> <<Call("mremap", got)>>]
    ELSE LET n == new_native(k, pg.perm, new_size, ok)
             \* copy.len() is the rounded length new_native stored
             copy_size == Min(next_page_boundary(new_size), pg.len)
             d == drop_pages(k_copy(n.k, n.pages.ptr, pg.ptr, copy_size), pg, alt)
         IN  IF n.panicked
             THEN [panicked |-> TRUE, pages |-> pg, k |-> n.k, calls |-> n.calls]
             ELSE [panicked |-> d.panicked, pages |-> n.pages, k |-> d.k,
                   calls |-> n.calls \o d.calls]

\* the kernel's answers to a resize, each outcome listed once: alt is not
\* asked for when the call fails or when the mapping does not grow
CanPlace(new_size, ok, alt) ==
    /\ (new_size = 0 \/ ~ok) => alt
    /\ (platform = "unix" /\ PAGE_ALIGN(new_size) <= KLen(kernel, pages.ptr)) => ~alt

\* Pages::<AllowRead, AllowWrite, E>::resize(new_size)
PagesResize ==
    /\ obj = "pages" /\ phase = "live"
    /\ NoBorrow
    /\ pages.perm.r /\ pages.perm.w
    /\ \E new_size \in NewSizes, ok \in BOOLEAN, alt \in BOOLEAN :
         /\ CanPlace(new_size, ok, alt)
         /\ LET rz == resize(kernel, pages, new_size, ok, alt)
            IN  /\ pages' = rz.pages
                /\ IF rz.panicked
                   THEN /\ phase' = "panicked"
                        /\ kernel' = unwind_pages(rz.k, rz.pages)
                        /\ op' = Op("resize", new_size, "panic",
                                    rz.calls \o <<Call(FreeCall, TRUE)>>)
                   ELSE /\ phase' = "live"
                        /\ kernel' = rz.k
                        /\ op' = Op("resize", new_size, "ok", rz.calls)
    /\ UNCHANGED <<fnrefs, platform, build, obj, vec, ledger>>

\* the offsets and lengths decommit and the advise calls are given
Offsets == {0, 100, 4096, 36864}

\* Pages::decommit(beginning, length) on the region pg:
\* decommit_len = length.min(self.len - beginning), where the subtraction
\* panics in a debug build and wraps in a release build when beginning > len;
\* then DiscardVirtualMemory (windows, whose failure panics in a debug build)
\* or posix_madvise(.., MADV_DONTNEED) (unix, result ignored) on
\* (ptr + beginning, decommit_len).  ok is the kernel's answer; wiped says
\* whether the kernel has taken the pages back by the time they are read.
decommit(k, pg, beginning, length, ok, wiped) ==
    LET over == beginning > pg.len
        decommit_len == IF over THEN length ELSE Min(length, pg.len - beginning)
    IN  IF over /\ build = "debug"
        THEN [panicked |-> TRUE, k |-> k, calls |-> <<>>, range |-> <<0, 0>>]
        ELSE [panicked |-> platform = "windows" /\ ~ok /\ build = "debug",
              k |-> IF wiped THEN k_discard(k, pg.ptr + beginning, decommit_len)
                    ELSE k,
              calls |-> <<Call(AdviseCall, ok)>>,
              range |-> <<pg.ptr + beginning, decommit_len>>]

\* the kernel's answers to a decommit, each outcome listed once: the call
\* succeeds only on a range the kernel accepts (on unix, where the result is
\* ignored, exactly then), and only a call that succeeded wipes
CanDecommit(pg, beginning, length, ok, wiped) ==
    LET over == beginning > pg.len
        decommit_len == IF over THEN length ELSE Min(length, pg.len - beginning)
        can  == k_can_discard(kernel, pg.ptr + beginning, decommit_len)
    IN  IF over /\ build = "debug"
        THEN ok /\ ~wiped
        ELSE /\ ok => can
             /\ platform = "unix" => (ok <=> can)
             /\ wiped => ok

\* Pages::decommit(beginning, length)
PagesDecommit ==
    /\ obj = "pages" /\ phase = "live"
    /\ NoBorrow
    /\ \E beginning \in Offsets, length \in Offsets, ok \in BOOLEAN, wiped \in BOOLEAN :
         LET dc == decommit(kernel, pages, beginning, length, ok, wiped)
         IN  /\ CanDecommit(pages, beginning, length, ok, wiped)
             /\ IF dc.panicked
                THEN /\ phase' = "panicked"
                     /\ kernel' = unwind_pages(dc.k, pages)
                     /\ op' = OpR("decommit", <<beginning, length>>, "panic",
                                  dc.calls \o <<Call(FreeCall, TRUE)>>, dc.range)
                ELSE /\ phase' = "live"
                     /\ kernel' = dc.k
                     /\ op' = OpR("decommit", <<beginning, length>>, "ok",
                                  dc.calls, dc.range)
    /\ UNCHANGED <<fnrefs, platform, build, obj, pages, vec, ledger>>

\* the kernel call an advise method makes: posix_madvise on unix (its result
\* is ignored), nothing elsewhere
advise(pg, len) ==
    IF platform = "unix"
    THEN [calls |-> <<Call("posix_madvise", TRUE)>>, range |-> <<pg.ptr, len>>]
    ELSE [calls |-> <<>>, range |-> <<0, 0>>]

\* Pages::advise_use_soon(used)
PagesAdviseUseSoon ==
    /\ obj = "pages" /\ phase = "live"
    /\ \E used \in Offsets :
         LET a == advise(pages, Min(pages.len, used))
         IN  op' = OpR("advise_use_soon", used, "ok", a.calls, a.range)
    /\ UNCHANGED <<fnrefs, platform, build, obj, phase, pages, kernel, vec, ledger>>

\* Pages::advise_use_seq()
PagesAdviseUseSeq ==
    /\ obj = "pages" /\ phase = "live"
    /\ LET a == advise(pages, pages.len)
       IN  op' = OpR("advise_use_seq", 0, "ok", a.calls, a.range)
    /\ UNCHANGED <<fnrefs, platform, build, obj, phase, pages, kernel, vec, ledger>>

\* Pages::advise_use_rnd()
PagesAdviseUseRnd ==
    /\ obj = "pages" /\ phase = "live"
    /\ LET a == advise(pages, pages.len)
       IN  op' = OpR("advise_use_rnd", 0, "ok", a.calls, a.range)
    /\ UNCHANGED <<fnrefs, platform, build, obj, phase, pages, kernel, vec, ledger>>

\* the offsets the region is indexed with: the followed bytes, and the
\* offsets around the end of the region
AccessOffsets(pg) == Probes \cup {pg.len - 1, pg.len, pg.len + 1}

\* slice[offset] with a bounds check that lets offset == len through
slice_index_inclusive(pg, offset) ==
    [panicked |-> offset > pg.len, addr |-> pg.ptr + offset]

\* slice[offset] on from_raw_parts(self.ptr, self.len): the bounds check of
\* the slice, then the address of the byte
slice_index(pg, offset) ==
    [panicked |-> offset >= pg.len, addr |-> pg.ptr + offset]

\* the end of a Pages accessor: a failed bounds check unwinds (the region is
\* dropped), a fault ends the process, otherwise ret goes to the caller
AccessEnd(name, offset, si, fault, ret, k) ==
    /\ IF si.panicked
       THEN /\ phase' = "panicked"
            /\ kernel' = unwind_pages(kernel, pages)
            /\ op' = Op(name, offset, "panic", <<Call(FreeCall, TRUE)>>)
       ELSE IF fault
       THEN /\ phase' = "crashed"
            /\ kernel' = kernel
            /\ op' = Op(name, offset, "crash", <<>>)
       ELSE /\ phase' = "live"
            /\ kernel' = k
            /\ op' = OpV(name, offset, "ok", <<>>, <<0, 0>>, <<ret>>)
    /\ UNCHANGED <<fnrefs, platform, build, obj, pages, vec, ledger>>

\* Index for Pages<AllowRead, W, E>: pages[offset] as a load of the byte
PagesIndex ==
    /\ obj = "pages" /\ phase = "live"
    /\ pages.perm.r
    /\ \E offset \in Probes \cup {pages.len, pages.len + 1},
          fault \in LoadFaults(kernel.maps[PlaceOf(pages.ptr)].prot) :
         LET si == slice_index(pages, offset)
         IN  /\ si.panicked => ~fault
             /\ AccessEnd("index", offset, si, fault,
                          IF si.panicked THEN 0 ELSE Mem(kernel, pages.ptr)[offset],
                          kernel)

\* IndexMut for Pages<AllowRead, AllowWrite, E>: pages[offset] = v
PagesIndexMut ==
    /\ obj = "pages" /\ phase = "live"
    /\ NoBorrow
    /\ pages.perm.r /\ pages.perm.w
    /\ \E offset \in Probes \cup {pages.len, pages.len + 1}, v \in Stores,
          fault \in StoreFaults(kernel.maps[PlaceOf(pages.ptr)].prot) :
         LET si == slice_index(pages, offset)
         IN  /\ si.panicked => ~fault
             /\ AccessEnd("index_mut", offset, si, fault, v,
                          IF si.panicked THEN kernel
                          ELSE [kernel EXCEPT
                                  !.maps[PlaceOf(pages.ptr)].mem[offset] = v])

\* Pages::<AllowRead, W, E>::get_ptr(offset)
PagesGetPtr ==
    /\ obj = "pages" /\ phase = "live"
    /\ pages.perm.r
    /\ \E offset \in AccessOffsets(pages) :
         LET si == slice_index(pages, offset)
         IN  AccessEnd("get_ptr", offset, si, FALSE, si.addr, kernel)

\* Pages::<R, AllowWrite, E>::get_ptr_mut(offset)
PagesGetPtrMut ==
    /\ obj = "pages" /\ phase = "live"
    /\ NoBorrow
    /\ pages.perm.w
    /\ \E offset \in AccessOffsets(pages) :
         LET si == slice_index(pages, offset)
         IN  AccessEnd("get_ptr_mut", offset, si, FALSE, si.addr, kernel)

\* Pages::<R, W, AllowExec>::get_fn_ptr(offset)
PagesGetFnPtr ==
    /\ obj = "pages" /\ phase = "live"
    /\ FeatureAllowExec /\ pages.perm.e
    /\ \E offset \in AccessOffsets(pages) :
         LET si == slice_index(pages, offset)
         IN  AccessEnd("get_fn_ptr", offset, si, FALSE, si.addr, kernel)

\* a handle made without the borrow of the region
FnRef_new_unbound(fr) == [fr EXCEPT !.handles = @ + 1]

\* FnRef::new(fnc, _page: &'a Pages<R, W, AllowExec>) -> FnRef<'a, F>: the
\* handle holds a shared borrow of the region for as long as it lives
FnRef_new(fr) == [fr EXCEPT !.handles = @ + 1, !.borrows = @ + 1]

\* Pages::<R, W, AllowExec>::get_fn(&self, offset): get_fn_ptr(offset), which
\* panics out of bounds, then FnRef::new(f, self).  Unwinding drops the
\* handles before the region they borrow.
PagesGetFn ==
    /\ obj = "pages" /\ phase = "live"
    /\ FeatureAllowExec /\ pages.perm.e
    /\ fnrefs.handles < MaxRefs
    /\ \E offset \in AccessOffsets(pages) :
         LET si == slice_index(pages, offset)
         IN  IF si.panicked
             THEN /\ phase' = "panicked"
                  /\ kernel' = unwind_pages(kernel, pages)
                  /\ op' = Op("get_fn", offset, "panic", <<Call(FreeCall, TRUE)>>)
                  /\ fnrefs' = [fnrefs EXCEPT !.handles = 0, !.borrows = 0]
             ELSE /\ phase' = "live"
                  /\ kernel' = kernel
                  /\ op' = OpV("get_fn", offset, "ok", <<>>, <<0, 0>>, <<si.addr>>)
                  /\ fnrefs' = FnRef_new(fnrefs)
    /\ UNCHANGED <<platform, build, obj, pages, vec, ledger>>

\* FnRef::internal_fn(&self) -> F: a copy of the function pointer, which
\* carries no lifetime
FnRefInternalFn ==
    /\ obj = "pages" /\ phase = "live"
    /\ fnrefs.handles > 0
    /\ fnrefs.raw < MaxRefs
    /\ fnrefs' = [fnrefs EXCEPT !.raw = @ + 1]
    /\ op' = Op("internal_fn", 0, "ok", <<>>)
    /\ UNCHANGED <<platform, build, obj, phase, pages, kernel, vec, ledger>>

\* UnsafeCallable::call(&self, args) on a handle: (self.fnc)(args)
FnRefCall ==
    /\ obj = "pages" /\ phase = "live"
    /\ fnrefs.handles > 0
    /\ \E fault \in ExecFaults(kernel.maps[PlaceOf(pages.ptr)].prot) :
         /\ phase' = IF fault THEN "crashed" ELSE "live"
         /\ op' = Op("call", 0, IF fault THEN "crash" ELSE "ok", <<>>)
    /\ UNCHANGED <<fnrefs, platform, build, obj, pages, kernel, vec, ledger>>

\* a handle goes out of scope: its borrow of the region ends
FnRefDrop ==
    /\ obj = "pages" /\ phase = "live"
    /\ fnrefs.handles > 0
    /\ fnrefs' = [fnrefs EXCEPT !.handles = @ - 1, !.borrows = @ - 1]
    /\ op' = Op("drop_fn_ref", 0, "ok", <<>>)
    /\ UNCHANGED <<platform, build, obj, phase, pages, kernel, vec, ledger>>

\* a call through a function pointer that internal_fn gave out; after the
\* region was dropped the pointer dangles and the call does anything
FnPtrCall ==
    /\ obj = "pages" /\ phase \in {"live", "dropped"}
    /\ fnrefs.raw > 0
    /\ \E fault \in IF phase = "live"
                   THEN ExecFaults(kernel.maps[PlaceOf(pages.ptr)].prot)
                   ELSE BOOLEAN :
         /\ phase' = IF fault THEN "crashed" ELSE phase
         /\ op' = Op("fn_ptr_call", 0, IF fault THEN "crash" ELSE "ok", <<>>)
    /\ UNCHANGED <<fnrefs, platform, build, obj, pages, kernel, vec, ledger>>

\* a function pointer that internal_fn gave out is used no more
FnPtrForget ==
    /\ obj = "pages" /\ phase \in {"live", "dropped"}
    /\ fnrefs.raw > 0
    /\ fnrefs' = [fnrefs EXCEPT !.raw = @ - 1]
    /\ op' = Op("fn_ptr_forget", 0, "ok", <<>>)
    /\ UNCHANGED <<platform, build, obj, phase, pages, kernel, vec, ledger>>

\* Drop for Pages: the region goes out of scope
PagesDrop ==
    /\ obj = "pages" /\ phase = "live"
    /\ NoBorrow
    /\ \E ok \in BOOLEAN :
         LET d == drop_pages(kernel, pages, ok)
         IN  /\ phase' = IF d.panicked THEN "panicked" ELSE "dropped"
             /\ kernel' = d.k
             /\ op' = Op("drop", 0, IF d.panicked THEN "panic" ELSE "ok", d.calls)
    /\ UNCHANGED <<fnrefs, platform, build, obj, pages, vec, ledger>>

(***************************************************************************)
(* PagedVec<T>: data (a Pages<AllowRead, AllowWrite, DenyExec>) and len.   *)
(* The backing memory is kept as element slots: slot i is the bytes        *)
(* [i * sizeof(T), (i + 1) * sizeof(T)).  A slot holds an element (known   *)
(* by the number of the push that made it), the zero bytes of fresh kernel *)
(* memory, garbage (uninitialized or torn bytes), or lies past the end of  *)
(* the kernel mapping.  The ledger counts, per element, how often its      *)
(* destructor ran and how often it was handed to the caller.               *)
(***************************************************************************)
ZERO == <<"zero">>

GARBAGE == <<"garbage">>

OUT == <<"out">>

Elem(id) == <<"elem", id>>

IsElem(v) == v[1] = "elem"

SlotIdx(esize) == 0..(MaxBytes \div esize)

\* the slots of a fresh mapping of K bytes
FreshSlots(esize, K) ==
    [i \in SlotIdx(esize) |-> IF (i + 1) * esize <= K THEN ZERO ELSE OUT]

\* the slots after the kernel mapping went from K to K2 bytes keeping the
\* bytes [0, min(K, K2)): a slot wholly inside the kept prefix keeps its
\* value, new memory is zero, an element cut by the old end of the mapping
\* is torn
ResizedSlots(slots, esize, K, K2) ==
    [i \in SlotIdx(esize) |->
        IF (i + 1) * esize <= Min(K, K2) THEN slots[i]
        ELSE IF (i + 1) * esize > K2 THEN OUT
        ELSE IF i * esize >= K \/ slots[i] = OUT \/ slots[i] = ZERO THEN ZERO
        ELSE GARBAGE]

\* PagedVec::capacity
capacity(pg, v) == pg.len \div v.esize

\* PagedVec::get_next_cap
get_next_cap(cap) == cap * 2

\* the destructor of T run on the bytes of a slot: an element's drop count
\* goes up; anything else is not an element
drop_value(ld, val) ==
    IF IsElem(val)
    THEN [ld EXCEPT !.drops[val[2]] = @ + 1]
    ELSE [ld EXCEPT !.junk = TRUE]

\* the bytes of a slot moved out to the caller as a T
hand_value(ld, val) ==
    IF IsElem(val)
    THEN [ld EXCEPT !.handed[val[2]] = @ + 1]
    ELSE [ld EXCEPT !.junk = TRUE]

\* PagedVec::drop_all: each of the slots [0, len) is swapped with an
\* uninitialized temporary, which is then dropped; dropped lists what was
\* dropped in the order of the loop
drop_all(v, ld) ==
    [vec |-> [v EXCEPT !.slots = [i \in DOMAIN v.slots |->
                                    IF i < v.len THEN GARBAGE ELSE v.slots[i]]],
     dropped |-> [n \in 1..v.len |-> v.slots[n - 1]],
     ledger |-> [ld EXCEPT
        !.drops = [id \in DOMAIN ld.drops |->
                     ld.drops[id]
                     + Cardinality({i \in DOMAIN v.slots :
                                      i < v.len /\ v.slots[i] = Elem(id)})],
        !.junk = @ \/ \E i \in DOMAIN v.slots : i < v.len /\ ~IsElem(v.slots[i])]]

\* PagedVec::resize(next_cap): data.resize(next_cap * sizeof(T))
vec_resize(k, pg, v, next_cap, ok, alt) ==
    LET rz == resize(k, pg, next_cap * v.esize, ok, alt)
    IN  [panicked |-> rz.panicked,
         pages |-> rz.pages,
         k |-> rz.k,
         vec |-> [v EXCEPT !.slots = ResizedSlots(v.slots, v.esize, KLen(k, pg.ptr),
                                                  KLen(rz.k, rz.pages.ptr))],
         calls |-> rz.calls]

\* the bounds of the model leave room for a resize to next_cap elements
CanResize(next_cap, ok, alt) ==
    /\ next_cap * vec.esize <= MaxBytes
    /\ CanPlace(next_cap * vec.esize, ok, alt)

\* no resize is made: the kernel's answers are not asked for
NoChoice(ok, alt) == ok /\ ~alt

\* The end of a PagedVec operation: outcome "ok", "err" or "none" leaves the
\* sequence live in the state given; "panic" unwinds, which drops the
\* sequence (drop_all, then its region); "crash" ends the process.
VecEndR(name, arg, outcome, calls, range, pg, k, v, ld) ==
    /\ obj' = obj
    /\ IF outcome = "panic"
       THEN LET da == drop_all(v, ld)
            IN  /\ phase' = "panicked"
                /\ pages' = pg
                /\ vec' = da.vec
                /\ ledger' = da.ledger
                /\ kernel' = unwind_pages(k, pg)
                /\ op' = OpR(name, arg, outcome, calls \o <<Call(FreeCall, TRUE)>>,
                             range)
       ELSE /\ phase' = IF outcome = "crash" THEN "crashed" ELSE "live"
            /\ pages' = pg
            /\ vec' = v
            /\ ledger' = ld
            /\ kernel' = k
            /\ op' = OpR(name, arg, outcome, calls, range)
    /\ UNCHANGED <<fnrefs, platform, build>>

\* the end of an operation that hands no byte range to the kernel
VecEnd(name, arg, outcome, calls, pg, k, v, ld) ==
    VecEndR(name, arg, outcome, calls, <<0, 0>>, pg, k, v, ld)

VecLive == obj = "vec" /\ phase = "live"

\* PagedVec::new asking for capacity bytes, not capacity elements
PagedVecNewAs_bytes(name) ==
    /\ obj = "none"
    /\ \E cap \in Capacities, esize \in ElemSizes, ok \in BOOLEAN :
         LET bytes_min == Max(cap, 4096)
             n == new_native(kernel, RWnoX, bytes_min, ok)
         IN  /\ obj' = "vec"
             /\ phase' = IF n.panicked THEN "panicked" ELSE "live"
             /\ pages' = n.pages
             /\ kernel' = n.k
             /\ vec' = IF n.panicked THEN NoVec
                       ELSE [len |-> 0, esize |-> esize,
                             slots |-> FreshSlots(esize, KLen(n.k, n.pages.ptr))]
             /\ op' = Op(name, cap, IF n.panicked THEN "panic" ELSE "ok", n.calls)
    /\ UNCHANGED <<fnrefs, platform, build, ledger>>

\* PagedVec::new(capacity) for an element type of esize bytes
PagedVecNewAs(name) ==
    /\ obj = "none"
    /\ \E cap \in Capacities, esize \in ElemSizes, ok \in BOOLEAN :
         LET bytes_min == Max(cap * esize, 4096)
             n == new_native(kernel, RWnoX, bytes_min, ok)
         IN  /\ obj' = "vec"
             /\ phase' = IF n.panicked THEN "panicked" ELSE "live"
             /\ pages' = n.pages
             /\ kernel' = n.k
             /\ vec' = IF n.panicked THEN NoVec
                       ELSE [len |-> 0, esize |-> esize,
                             slots |-> FreshSlots(esize, KLen(n.k, n.pages.ptr))]
             /\ op' = Op(name, cap, IF n.panicked THEN "panic" ELSE "ok", n.calls)
    /\ UNCHANGED <<fnrefs, platform, build, ledger>>

PagedVecNew == PagedVecNewAs("new")

\* PagedVec::with_capacity(capacity): Self::new(capacity)
PagedVecWithCapacity == PagedVecNewAs("with_capacity")

\* whether slot i reaches past the end of the kernel mapping
Straddles(k, pg, v, i) == (i + 1) * v.esize > KLen(k, pg.ptr)

\* PagedVec::push_within_capacity(t): slice[self.len] = t drops what the slot
\* held and then stores t
PagedVecPushWithinCapacity ==
    /\ VecLive
    /\ ledger.next <= MaxElems
    /\ \E landed \in BOOLEAN :
         LET i   == vec.len
             old == vec.slots[i]
             ld1 == [drop_value(ledger, old) EXCEPT !.tail = TRUE, !.next = @ + 1]
             v1  == [vec EXCEPT !.slots[i] = Elem(ledger.next), !.len = @ + 1]
         IN  IF vec.len * vec.esize < pages.len
             THEN IF Straddles(kernel, pages, vec, i) \/ old = GARBAGE
                  THEN IF landed
                       THEN VecEnd("push_within_capacity", ledger.next, "ok", <<>>,
                                   pages, kernel, v1, ld1)
                       ELSE VecEnd("push_within_capacity", ledger.next, "crash", <<>>,
                                   pages, kernel, vec, ledger)
                  ELSE /\ landed
                       /\ VecEnd("push_within_capacity", ledger.next, "ok", <<>>,
                                 pages, kernel, v1, ld1)
             ELSE /\ landed
                  /\ VecEnd("push_within_capacity", ledger.next, "err", <<>>,
                            pages, kernel, vec, ledger)

\* PagedVec::push(t): resizes to get_next_cap(capacity) when
\* len * sizeof(T) >= data.len(), then writes t at slot len without reading it
PagedVecPush ==
    /\ VecLive
    /\ ledger.next <= MaxElems
    /\ \E ok \in BOOLEAN, alt \in BOOLEAN, landed \in BOOLEAN :
         LET grow == vec.len * vec.esize >= pages.len
             next_cap == get_next_cap(capacity(pages, vec))
             rz  == IF grow THEN vec_resize(kernel, pages, vec, next_cap, ok, alt)
                    ELSE [panicked |-> FALSE, pages |-> pages, k |-> kernel,
                          vec |-> vec, calls |-> <<>>]
             i   == vec.len
             ld1 == [ledger EXCEPT !.next = @ + 1]
             v1  == [rz.vec EXCEPT !.slots[i] = Elem(ledger.next), !.len = @ + 1]
         IN  /\ IF grow THEN CanResize(next_cap, ok, alt) ELSE NoChoice(ok, alt)
             /\ IF rz.panicked
                THEN /\ landed
                     \* t is dropped with the frame
                     /\ VecEnd("push", ledger.next, "panic", rz.calls, rz.pages, rz.k,
                               rz.vec, [ld1 EXCEPT !.drops[ledger.next] = @ + 1])
                ELSE IF Straddles(rz.k, rz.pages, rz.vec, i)
                THEN IF landed
                     THEN VecEnd("push", ledger.next, "ok", rz.calls, rz.pages, rz.k,
                                 v1, ld1)
                     ELSE VecEnd("push", ledger.next, "crash", rz.calls, rz.pages,
                                 rz.k, rz.vec, ledger)
                ELSE /\ landed
                     /\ VecEnd("push", ledger.next, "ok", rz.calls, rz.pages, rz.k,
                               v1, ld1)

\* PagedVec::pop: None on empty; otherwise the last slot is swapped with an
\* uninitialized value, which is returned
PagedVecPop ==
    /\ VecLive
    /\ IF vec.len = 0
       THEN VecEnd("pop", 0, "none", <<>>, pages, kernel, vec, ledger)
       ELSE LET last_index == vec.len - 1
                res == vec.slots[last_index]
            IN  VecEnd("pop", res, "ok", <<>>, pages, kernel,
                       [vec EXCEPT !.slots[last_index] = GARBAGE, !.len = @ - 1],
                       hand_value(ledger, res))

\* PagedVec::remove(index): ptr::read of slot index, ptr::copy of the
\* len - index - 1 slots after it one to the left, len -= 1.  There is no
\* bounds check: with index >= len the slot is read all the same, and
\* len - index - 1 panics in a debug build (ret is dropped by unwinding) and
\* wraps to a huge count in a release build.
PagedVecRemove ==
    /\ VecLive
    /\ \E index \in DOMAIN vec.slots :
         LET ret == vec.slots[index]
         IN  IF index < vec.len
             THEN VecEnd("remove", index, "ok", <<>>, pages, kernel,
                         [vec EXCEPT
                            !.slots = [j \in DOMAIN vec.slots |->
                                         IF j >= index /\ j < vec.len - 1
                                         THEN vec.slots[j + 1] ELSE vec.slots[j]],
                            !.len = @ - 1],
                         hand_value(ledger, ret))
             ELSE IF ret = OUT \/ build = "release"
             THEN VecEnd("remove", index, "crash", <<>>, pages, kernel, vec,
                         [ledger EXCEPT !.tail = TRUE])
             ELSE VecEnd("remove", index, "panic", <<>>, pages, kernel, vec,
                         [drop_value(ledger, ret) EXCEPT !.tail = TRUE])

\* PagedVec::clear: drop_all, then len = 0
clear(v, ld) ==
    LET da == drop_all(v, ld)
    IN  [vec |-> [da.vec EXCEPT !.len = 0], dropped |-> da.dropped,
         ledger |-> da.ledger]

\* PagedVec::clear(); the operation's argument records what it dropped, in
\* order
PagedVecClear ==
    /\ VecLive
    /\ LET c == clear(vec, ledger)
       IN  VecEnd("clear", c.dropped, "ok", <<>>, pages, kernel, c.vec, c.ledger)

\* the slots after the first n bytes of the backing were given back to the
\* kernel: a slot wholly inside them reads as zero, one that they cut is torn
WipedSlots(slots, esize, n) ==
    [i \in DOMAIN slots |->
        IF slots[i] = OUT \/ i * esize >= n THEN slots[i]
        ELSE IF (i + 1) * esize <= n THEN ZERO
        ELSE GARBAGE]

\* PagedVec::clear_decommit: clear, then data.decommit(0, data.len())
PagedVecClearDecommit ==
    /\ VecLive
    /\ \E ok \in BOOLEAN, wiped \in BOOLEAN :
         LET c  == clear(vec, ledger)
             dc == decommit(kernel, pages, 0, pages.len, ok, wiped)
             v1 == IF wiped
                   THEN [c.vec EXCEPT !.slots =
                            WipedSlots(@, vec.esize, PAGE_ALIGN(pages.len))]
                   ELSE c.vec
         IN  /\ CanDecommit(pages, 0, pages.len, ok, wiped)
             /\ VecEndR("clear_decommit", c.dropped,
                        IF dc.panicked THEN "panic" ELSE "ok",
                        dc.calls, dc.range, pages, dc.k, v1, c.ledger)

\* how many more elements reserve, reserve_exact and advise_use_soon are
\* asked about
Counts == 0..2

\* PagedVec::reserve(additional)
PagedVecReserve ==
    /\ VecLive
    /\ \E additional \in Counts, ok \in BOOLEAN, alt \in BOOLEAN :
         LET cap == capacity(pages, vec)
             next_cap == Max(vec.len + additional, get_next_cap(cap))
             rz == vec_resize(kernel, pages, vec, next_cap, ok, alt)
         IN  IF vec.len + additional <= cap
             THEN /\ NoChoice(ok, alt)
                  /\ VecEnd("reserve", additional, "ok", <<>>, pages, kernel, vec, ledger)
             ELSE /\ CanResize(next_cap, ok, alt)
                  /\ VecEnd("reserve", additional,
                            IF rz.panicked THEN "panic" ELSE "ok",
                            rz.calls, rz.pages, rz.k, rz.vec, ledger)

\* PagedVec::reserve_exact(additional)
PagedVecReserveExact ==
    /\ VecLive
    /\ \E additional \in Counts, ok \in BOOLEAN, alt \in BOOLEAN :
         LET cap == capacity(pages, vec)
             next_cap == vec.len + additional
             rz == vec_resize(kernel, pages, vec, next_cap, ok, alt)
         IN  IF vec.len + additional < cap
             THEN /\ NoChoice(ok, alt)
                  /\ VecEnd("reserve_exact", additional, "ok", <<>>, pages, kernel,
                            vec, ledger)
             ELSE /\ CanResize(next_cap, ok, alt)
                  /\ VecEnd("reserve_exact", additional,
                            IF rz.panicked THEN "panic" ELSE "ok",
                            rz.calls, rz.pages, rz.k, rz.vec, ledger)

\* PagedVec::advise_use_soon(used): resize(used) when len < used, then
\* data.advise_use_soon(used)
PagedVecAdviseUseSoon ==
    /\ VecLive
    /\ \E used \in Counts, ok \in BOOLEAN, alt \in BOOLEAN :
         LET rz == vec_resize(kernel, pages, vec, used, ok, alt)
         IN  IF vec.len < used
             THEN /\ CanResize(used, ok, alt)
                  /\ IF rz.panicked
                     THEN VecEnd("advise_use_soon", used, "panic", rz.calls,
                                 rz.pages, rz.k, rz.vec, ledger)
                     ELSE VecEnd("advise_use_soon", used, "ok",
                                 rz.calls \o advise(rz.pages, Min(rz.pages.len, used)).calls,
                                 rz.pages, rz.k, rz.vec, ledger)
             ELSE /\ NoChoice(ok, alt)
                  /\ VecEnd("advise_use_soon", used, "ok",
                            advise(pages, Min(pages.len, used)).calls,
                            pages, kernel, vec, ledger)

\* PagedVec::advise_use_seq
PagedVecAdviseUseSeq ==
    /\ VecLive
    /\ VecEnd("advise_use_seq", 0, "ok", advise(pages, pages.len).calls,
              pages, kernel, vec, ledger)

\* PagedVec::advise_use_rnd
PagedVecAdviseUseRnd ==
    /\ VecLive
    /\ VecEnd("advise_use_rnd", 0, "ok", advise(pages, pages.len).calls,
              pages, kernel, vec, ledger)

\* Drop for PagedVec: drop_all, then the field data is dropped
PagedVecDrop ==
    /\ VecLive
    /\ \E ok \in BOOLEAN :
         LET da == drop_all(vec, ledger)
             d  == drop_pages(kernel, pages, ok)
         IN  /\ phase' = IF d.panicked THEN "panicked" ELSE "dropped"
             /\ vec' = da.vec
             /\ ledger' = da.ledger
             /\ kernel' = d.k
             /\ op' = Op("drop", 0, IF d.panicked THEN "panic" ELSE "ok", d.calls)
    /\ UNCHANGED <<fnrefs, platform, build, obj, pages>>

Init ==
    /\ platform \in {"unix", "windows"}
    /\ build \in {"debug", "release"}
    /\ obj = "none"
    /\ phase = "init"
    /\ pages = NoPages
    /\ kernel = [maps |-> [b \in Places |-> Unmapped], errno |-> 0, badFree |-> FALSE]
    /\ vec = NoVec
    /\ ledger = [drops |-> [i \in 1..MaxElems |-> 0],
                 handed |-> [i \in 1..MaxElems |-> 0],
                 next |-> 1,
                 tail |-> FALSE,
                 junk |-> FALSE]
    /\ op = Op("none", 0, "ok", <<>>)
    /\ fnrefs = NoRefs

NextPages ==
    \/ PagesNew
    \/ allow_read
    \/ deny_read
    \/ allow_write
    \/ deny_write
    \/ allow_write_no_exec
    \/ allow_exec
    \/ set_protected_exec
    \/ deny_exec
    \/ PagesResize
    \/ PagesDecommit
    \/ PagesAdviseUseSoon
    \/ PagesAdviseUseSeq
    \/ PagesAdviseUseRnd
    \/ PagesDrop

NextVec ==
    \/ PagedVecNew
    \/ PagedVecWithCapacity
    \/ PagedVecPushWithinCapacity
    \/ PagedVecPush
    \/ PagedVecPop
    \/ PagedVecRemove
    \/ PagedVecClear
    \/ PagedVecClearDecommit
    \/ PagedVecReserve
    \/ PagedVecReserveExact
    \/ PagedVecAdviseUseSoon
    \/ PagedVecAdviseUseSeq
    \/ PagedVecAdviseUseRnd
    \/ PagedVecDrop

\* a Pages region whose bytes are indexed, loaded and stored
NextAccess ==
    \/ PagesNew
    \/ allow_read
    \/ deny_read
    \/ allow_write
    \/ deny_write
    \/ allow_write_no_exec
    \/ allow_exec
    \/ set_protected_exec
    \/ deny_exec
    \/ PagesResize
    \/ PagesIndex
    \/ PagesIndexMut
    \/ PagesGetPtr
    \/ PagesGetPtrMut
    \/ PagesGetFnPtr
    \/ PagesDrop

\* the life of a PagedVec
SpecVec == Init /\ [][NextVec]_vars

\* the life of a Pages region
SpecPages == Init /\ [][NextPages]_vars

\* the life of a Pages region with its accessors
SpecAccess == Init /\ [][NextAccess]_vars

\* a Pages region with the handles and function pointers into it
NextFn ==
    \/ PagesNew
    \/ allow_read
    \/ deny_read
    \/ allow_write
    \/ deny_write
    \/ allow_write_no_exec
    \/ allow_exec
    \/ set_protected_exec
    \/ deny_exec
    \/ PagesGetFn
    \/ FnRefInternalFn
    \/ FnRefCall
    \/ FnRefDrop
    \/ FnPtrCall
    \/ FnPtrForget
    \/ PagesDrop

SpecFn == Init /\ [][NextFn]_vars

\* a PagedVec that is made, filled, cleared and dropped
NextNew ==
    \/ PagedVecNew
    \/ PagedVecWithCapacity
    \/ PagedVecPush
    \/ PagedVecClear
    \/ PagedVecDrop

SpecNew == Init /\ [][NextNew]_vars

Next == NextPages \/ NextAccess \/ NextVec \/ NextFn \/ NextNew

Spec == Init /\ [][Next]_vars

(***************************************************************************)
(* The claims.                                                             *)
(***************************************************************************)
PagesLive == obj = "pages" /\ phase = "live"

Transitions ==
    {"allow_read", "deny_read", "allow_write", "deny_write", "allow_write_no_exec",
     "allow_exec", "set_protected_exec", "deny_exec"}

Mapped(k) == {b \in Places : k.maps[b].live}

\* C1: with the deny_xw feature on, no live region has Write=Allow and
\* Execute=Allow at the same time.
C1_NoWriteExec ==
    (FeatureDenyXw /\ PagesLive) => ~(pages.perm.w /\ pages.perm.e)

\* C2: whenever a Pages operation has returned normally, the protection the
\* kernel holds for the region's mapping is the platform value of the
\* region's type-level triple.
C2_KernelAgreesWithType ==
    PagesLive =>
        /\ kernel.maps[PlaceOf(pages.ptr)].live
        /\ kernel.maps[PlaceOf(pages.ptr)].prot = ProtOf(pages.perm)

\* C3: every element that was stored is handed to the caller or dropped, at
\* most once in all while the sequence lives and exactly once when it has
\* been dropped.
C3_ExactlyOnce ==
    obj = "vec" =>
        /\ \A id \in DOMAIN ledger.drops : ledger.drops[id] + ledger.handed[id] <= 1
        /\ phase = "dropped" =>
             \A id \in DOMAIN ledger.drops :
                id < ledger.next => ledger.drops[id] + ledger.handed[id] = 1

\* C4: no PagedVec operation reads or drops, as an element, a slot at an
\* index >= len.
C4_TailNeverInterpreted == obj = "vec" => ~ledger.tail

\* C5: a live PagedVec has len <= capacity = floor(backing_bytes / sizeof(T)).
C5_LenWithinCapacity ==
    (obj = "vec" /\ phase = "live") => vec.len <= capacity(pages, vec)

\* C6: the byte length of a live region is a positive multiple of the page
\* size.
C6_LenPageMultiple ==
    PagesLive => (pages.len > 0 /\ pages.len % PAGE_SIZE = 0)

\* C7: Pages::new(length) with length > 0, when it returns, returns a region
\* whose byte length is the smallest multiple of the page size >= length
\* (0x1234 gives 0x2000, 0x8000 gives 0x8000, 256 gives 0x1000).
C7_NewRoundsUp ==
    (PagesLive /\ op.name = "new") =>
        /\ op.arg > 0
        /\ pages.len % PAGE_SIZE = 0
        /\ pages.len >= op.arg
        /\ pages.len - op.arg < PAGE_SIZE
        /\ kernel.maps[PlaceOf(pages.ptr)].klen = pages.len
        /\ op.arg = 4660 => pages.len = 8192
        /\ op.arg = 32768 => pages.len = 32768
        /\ op.arg = 256 => pages.len = 4096

\* C7 witness: new(0x1234) has returned a region of 0x2000 bytes
C7_Witness ==
    PagesLive /\ op.name = "new" /\ op.arg = 4660 /\ pages.len = 8192

\* C8: Pages::new(0) panics, for every permission type, before any kernel
\* call is issued: no mapping exists and errno is untouched.
C8_ZeroRejectedBeforeKernel ==
    (obj = "pages" /\ op.name = "new" /\ op.arg = 0) =>
        /\ phase = "panicked"
        /\ op.outcome = "panic"
        /\ op.calls = <<>>
        /\ Mapped(kernel) = {}
        /\ kernel.errno = 0

\* C8 witness: new(0) was called and has panicked
C8_Witness ==
    /\ obj = "pages" /\ op.name = "new" /\ op.arg = 0 /\ phase = "panicked"

\* C9: a transition whose protection-change call failed has panicked.
C9_ProtectFailurePanics ==
    (obj = "pages" /\ op.name \in Transitions
        /\ \E i \in DOMAIN op.calls : op.calls[i] = Call(ProtectCall, FALSE))
    => op.outcome = "panic"

\* C10: the mapping behind a region is released exactly once.  No release
\* call ever goes to a place that holds no mapping; a live region's mapping
\* is mapped and is the only one (a transition or resize neither releases
\* it nor leaves another behind); once the region is dropped nothing is
\* mapped; after a panic a mapping is left only if the kernel refused its
\* release call.
C10_ReleasedExactlyOnce ==
    obj = "pages" =>
        /\ ~kernel.badFree
        /\ phase = "live" => Mapped(kernel) = {PlaceOf(pages.ptr)}
        /\ phase = "dropped" => Mapped(kernel) = {}
        /\ (phase = "panicked" /\ Mapped(kernel) # {}) =>
             \E i \in DOMAIN op.calls : op.calls[i] = Call(FreeCall, FALSE)

\* C10 witness: a region that was relocated by a resize (which needs
\* Write=Allow) and then made read-only by a transition has been dropped
C10_Witness ==
    /\ obj = "pages" /\ phase = "dropped"
    /\ PlaceOf(pages.ptr) = 2
    /\ ~pages.perm.w
    /\ Mapped(kernel) = {}

\* the permission triple a named transition gives a region of triple p
After(name, p) ==
    CASE name = "allow_read"          -> [p EXCEPT !.r = TRUE]
      [] name = "deny_read"           -> [p EXCEPT !.r = FALSE]
      [] name = "allow_write"         -> [p EXCEPT !.w = TRUE]
      [] name = "deny_write"          -> [p EXCEPT !.w = FALSE]
      [] name = "allow_exec"          -> [p EXCEPT !.e = TRUE]
      [] name = "deny_exec"           -> [p EXCEPT !.e = FALSE]
      [] name = "allow_write_no_exec" -> [p EXCEPT !.w = TRUE, !.e = FALSE]
      [] name = "set_protected_exec"  -> [p EXCEPT !.e = TRUE, !.w = FALSE]

\* how many protection-change calls the last operation issued
ProtectCalls == Cardinality({i \in DOMAIN op.calls : op.calls[i][1] = ProtectCall})

\* C11: a transition that has returned gave the region it consumed (op.arg)
\* the axes listed for it and left the other axes, the base address and the
\* byte length as they were.
C11_TransitionFrame ==
    (PagesLive /\ op.name \in Transitions) =>
        /\ pages.perm = After(op.name, op.arg.perm)
        /\ pages.ptr = op.arg.ptr
        /\ pages.len = op.arg.len

\* C11 witness: allow_write_no_exec has returned from a readable, executable,
\* unwritable region
C11_Witness ==
    /\ PagesLive /\ op.name = "allow_write_no_exec"
    /\ op.arg.perm = [r |-> TRUE, w |-> FALSE, e |-> TRUE]
    /\ pages.perm = [r |-> TRUE, w |-> TRUE, e |-> FALSE]

\* C12 as stated: a transition calls the kernel's protection primitive
\* exactly when the triple it yields differs from the triple it consumed: no
\* call when they are identical, exactly one otherwise.
C12_CallIffTripleDiffers ==
    (obj = "pages" /\ op.name \in Transitions) =>
        ProtectCalls = IF op.arg.perm = pages.perm THEN 0 ELSE 1

\* C12 amended: a transition calls the kernel's protection primitive exactly
\* when the platform's protection value of the triple it yields differs from
\* that of the triple it consumed (unix: whenever the triples differ;
\* windows: PAGE_READWRITE and PAGE_EXECUTE_READWRITE each stand for two
\* triples): no call when the values are equal, exactly one otherwise.
C12_CallIffProtectionDiffers ==
    (obj = "pages" /\ op.name \in Transitions) =>
        ProtectCalls = IF ProtOf(op.arg.perm) = ProtOf(pages.perm) THEN 0 ELSE 1

\* C12 witness: on windows deny_read has returned from a readable, writable
\* region without a kernel call
C12_Witness ==
    /\ PagesLive /\ platform = "windows" /\ op.name = "deny_read"
    /\ op.arg.perm.r /\ op.arg.perm.w /\ ~pages.perm.r
    /\ op.calls = <<>>

Accessors == {"index", "index_mut", "get_ptr", "get_ptr_mut", "get_fn_ptr"}

\* C13: indexed access, get_ptr, get_ptr_mut and get_fn_ptr at offset
\* (op.arg) panic exactly when offset >= len, and a pointer they return lies
\* inside the region and inside its kernel mapping.
C13_BoundsChecked ==
    (obj = "pages" /\ op.name \in Accessors) =>
        /\ op.outcome = "panic" <=> op.arg >= pages.len
        /\ (op.outcome = "ok" /\ op.name \in {"get_ptr", "get_ptr_mut", "get_fn_ptr"}) =>
             /\ op.ret[1] >= pages.ptr
             /\ op.ret[1] < pages.ptr + pages.len
             /\ op.ret[1] - pages.ptr < KLen(kernel, pages.ptr)
             /\ kernel.maps[PlaceOf(pages.ptr)].live

\* C13 witness: get_fn_ptr(0x1000) on a region of 0x1000 bytes has panicked
C13_Witness ==
    /\ obj = "pages" /\ op.name = "get_fn_ptr" /\ op.arg = 4096
    /\ pages.len = 4096 /\ op.outcome = "panic"

C15_TransitionsKeepBytes ==
    [][(obj = "pages" /\ phase = "live") =>
          /\ (op'.name \in Transitions /\ op'.outcome = "ok") =>
                Mem(kernel', pages'.ptr) = Mem(kernel, pages.ptr)
          /\ (op'.name = "index" /\ op'.arg < pages.len) =>
                /\ op'.outcome = "ok"
                /\ op'.ret = <<Mem(kernel, pages.ptr)[op'.arg]>>]_vars

\* the elements stored in the slots [0, n) of a sequence are left alone
SameUpTo(n) == \A j \in 0..(n - 1) : vec'.slots[j] = vec.slots[j]

\* C16: push_within_capacity(value) stores value at index len and returns Ok
\* exactly when len < capacity; otherwise it returns Err(value) and leaves
\* len, capacity, the stored elements and the value alone.
C16_PushWithinCapacity ==
    [][(VecLive /\ op'.name = "push_within_capacity") =>
          IF vec.len < capacity(pages, vec)
          THEN /\ op'.outcome = "ok"
               /\ vec'.len = vec.len + 1
               /\ vec'.slots[vec.len] = Elem(op'.arg)
               /\ SameUpTo(vec.len)
               /\ capacity(pages', vec') = capacity(pages, vec)
          ELSE /\ op'.outcome = "err"
               /\ vec' = vec /\ pages' = pages /\ ledger' = ledger]_vars

\* C17: pop on an empty sequence returns None and changes nothing; on a
\* non-empty one it returns the element at index len - 1, the one stored
\* last among those still in the sequence (LIFO), decrements len and leaves
\* the capacity and the other elements alone.
C17_PopLifo ==
    [][(VecLive /\ op'.name = "pop") =>
          IF vec.len = 0
          THEN /\ op'.outcome = "none"
               /\ vec' = vec /\ pages' = pages /\ ledger' = ledger
          ELSE /\ op'.outcome = "ok"
               /\ op'.arg = vec.slots[vec.len - 1]
               /\ IsElem(op'.arg)
               /\ \A j \in 0..(vec.len - 2) :
                     IsElem(vec.slots[j]) /\ vec.slots[j][2] < op'.arg[2]
               /\ ledger'.handed = [ledger.handed EXCEPT ![op'.arg[2]] = @ + 1]
               /\ vec'.len = vec.len - 1
               /\ SameUpTo(vec.len - 1)
               /\ capacity(pages', vec') = capacity(pages, vec)]_vars

\* C18: remove(index) with index < len returns the element that was at
\* index, decrements len, keeps the elements before index in place and
\* moves each element after it one index down; capacity is unchanged.
C18_RemoveShifts ==
    [][(VecLive /\ op'.name = "remove" /\ op'.arg < vec.len) =>
          /\ op'.outcome = "ok"
          /\ IsElem(vec.slots[op'.arg])
          /\ ledger'.handed = [ledger.handed EXCEPT ![vec.slots[op'.arg][2]] = @ + 1]
          /\ vec'.len = vec.len - 1
          /\ SameUpTo(op'.arg)
          /\ \A j \in op'.arg..(vec.len - 2) :
                IsElem(vec.slots[j + 1]) /\ vec'.slots[j] = vec.slots[j + 1]
          /\ capacity(pages', vec') = capacity(pages, vec)]_vars

\* C19: remove(index) with index >= len panics on a bounds check before any
\* slot is read or moved: nothing is handed out and nothing but the
\* unwinding's drop of the stored elements happens.
C19_RemoveOutOfBoundsPanics ==
    [][(VecLive /\ op'.name = "remove" /\ op'.arg >= vec.len) =>
          /\ op'.outcome = "panic"
          /\ ledger' = drop_all(vec, ledger).ledger
          /\ vec'.len = vec.len]_vars

\* C20: push(v) stores v at index len, whether or not the backing grows,
\* and leaves every element already stored at its index, undropped; after
\* it len <= capacity.
C20_PushKeepsElements ==
    [][(VecLive /\ op'.name = "push") =>
          /\ op'.outcome = "ok" =>
                /\ vec'.len = vec.len + 1
                /\ vec'.slots[vec.len] = Elem(op'.arg)
                /\ SameUpTo(vec.len)
                /\ ledger'.drops = ledger.drops
                /\ vec'.len <= capacity(pages', vec')
          /\ op'.outcome \in {"ok", "panic"}]_vars

\* C21: after reserve(additional) returns, capacity >= len + additional, and
\* len and the stored elements are as before; when len + additional <=
\* capacity held before the call the capacity and the backing are as before,
\* otherwise the new capacity is max(len + additional, 2 * old capacity).
C21_Reserve ==
    [][(VecLive /\ op'.name = "reserve" /\ op'.outcome = "ok") =>
          /\ capacity(pages', vec') >= vec.len + op'.arg
          /\ vec'.len = vec.len
          /\ SameUpTo(vec.len)
          /\ ledger' = ledger
          /\ IF vec.len + op'.arg <= capacity(pages, vec)
             THEN pages' = pages /\ kernel' = kernel /\ op'.calls = <<>>
             ELSE capacity(pages', vec')
                    = Max(vec.len + op'.arg, 2 * capacity(pages, vec))]_vars

\* C22: reserve_exact(additional) with len + additional <= capacity before
\* the call (equality included) does nothing: no kernel call is made and the
\* backing region, its byte length and the capacity are as before.
C22_ReserveExactSufficient ==
    [][(VecLive /\ op'.name = "reserve_exact"
          /\ vec.len + op'.arg <= capacity(pages, vec)) =>
          /\ op'.outcome = "ok"
          /\ op'.calls = <<>>
          /\ pages' = pages /\ kernel' = kernel
          /\ vec' = vec /\ ledger' = ledger]_vars

\* C23: reserve_exact(additional) with len + additional > capacity grows the
\* sequence: when it returns, capacity is exactly len + additional, and len
\* and the stored elements are as before.
C23_ReserveExactGrows ==
    [][(VecLive /\ op'.name = "reserve_exact" /\ op'.outcome = "ok"
          /\ vec.len + op'.arg > capacity(pages, vec)) =>
          /\ capacity(pages', vec') = vec.len + op'.arg
          /\ vec'.len = vec.len
          /\ SameUpTo(vec.len)
          /\ ledger' = ledger]_vars

\* C24: clear() drops each of the len elements once, in increasing index
\* order, sets len to 0 and leaves the capacity as it was; a later drop of
\* the sequence drops none of them again.
C24_ClearDropsInOrder ==
    [][VecLive =>
          /\ op'.name = "clear" =>
                /\ op'.outcome = "ok"
                /\ op'.arg = [n \in 1..vec.len |-> vec.slots[n - 1]]
                /\ \A n \in 1..vec.len : IsElem(op'.arg[n])
                /\ \A id \in DOMAIN ledger.drops :
                      ledger'.drops[id] = ledger.drops[id]
                         + Cardinality({n \in 1..vec.len : op'.arg[n] = Elem(id)})
                /\ ledger'.junk = ledger.junk
                /\ ledger'.handed = ledger.handed
                /\ vec'.len = 0
                /\ pages' = pages
                /\ capacity(pages', vec') = capacity(pages, vec)
          /\ (op'.name = "drop" /\ vec.len = 0) => ledger' = ledger]_vars

\* C25: clear_decommit() first does what clear() does (every element dropped
\* once, len = 0) and only then hands the whole backing range
\* [0, backing_bytes) to the kernel's decommit call; when it returns the
\* capacity is as before and the backing is still mapped, and a push that
\* follows succeeds and stores its value.
C25_ClearDecommit ==
    [][VecLive =>
          /\ op'.name = "clear_decommit" =>
                /\ op'.arg = [n \in 1..vec.len |-> vec.slots[n - 1]]
                /\ \A n \in 1..vec.len : IsElem(op'.arg[n])
                /\ \A id \in DOMAIN ledger.drops :
                      ledger'.drops[id] = ledger.drops[id]
                         + Cardinality({n \in 1..vec.len : op'.arg[n] = Elem(id)})
                /\ ledger'.junk = ledger.junk
                /\ vec'.len = 0
                /\ op'.outcome = "ok" =>
                      /\ Len(op'.calls) = 1
                      /\ op'.calls[1][1] = AdviseCall
                      /\ op'.range = <<pages.ptr, pages.len>>
                      /\ pages' = pages
                      /\ capacity(pages', vec') = capacity(pages, vec)
                      /\ kernel'.maps[PlaceOf(pages.ptr)].live
                      /\ KLen(kernel', pages.ptr) = KLen(kernel, pages.ptr)
          /\ (op.name = "clear_decommit" /\ op'.name = "push") =>
                /\ op'.outcome = "ok"
                /\ vec'.len = 1
                /\ vec'.slots[0] = Elem(op'.arg)]_vars

\* C26: PagedVec::new(capacity) and with_capacity(capacity) return a
\* sequence with len = 0 whose backing has max(capacity * sizeof(T), 0x1000)
\* bytes rounded up to the page size, so capacity() =
\* floor(backing_bytes / sizeof(T)) >= capacity; for 8-byte elements and
\* capacity 0x1000, capacity() = 0x1000.
C26_NewBacking ==
    /\ (obj = "vec" /\ op.name \in {"new", "with_capacity"} /\ op.outcome = "ok") =>
          /\ phase = "live"
          /\ vec.len = 0
          /\ pages.len = next_page_boundary(Max(op.arg * vec.esize, 4096))
          /\ KLen(kernel, pages.ptr) = pages.len
          /\ capacity(pages, vec) = pages.len \div vec.esize
          /\ capacity(pages, vec) >= op.arg
    /\ capacity([NoPages EXCEPT !.len = next_page_boundary(Max(4096 * 8, 4096))],
                [NoVec EXCEPT !.esize = 8]) = 4096

\* with_capacity(2) of 3000-byte elements has returned: 6000 bytes are
\* rounded up to 8192
C26_Witness ==
    /\ obj = "vec" /\ phase = "live"
    /\ op.name = "with_capacity" /\ op.outcome = "ok" /\ op.arg = 2
    /\ vec.esize = 3000 /\ vec.len = 0
    /\ pages.len = 8192

\* C27: PagedVec::advise_use_soon(n) never changes len or a stored element;
\* when n > len it resizes the backing to hold n elements, so that when it
\* returns capacity >= n in every case.
C27_AdviseUseSoon ==
    [][(VecLive /\ op'.name = "advise_use_soon" /\ op'.outcome = "ok") =>
          /\ vec'.len = vec.len
          /\ SameUpTo(vec.len)
          /\ ledger' = ledger
          /\ op'.arg > vec.len =>
                /\ op'.calls # <<>>
                /\ op'.calls[1][1] \in {"mremap", "VirtualAlloc"}
                /\ pages'.len >= op'.arg * vec.esize
          /\ capacity(pages', vec') >= op'.arg]_vars

\* C28: decommit(offset, length) releases the page-aligned covering of
\* [offset, offset + length) clipped to the region: the range handed to the
\* kernel starts at a page boundary at or below base + offset and ends at a
\* page boundary at or above the end of the requested range.
C28_DecommitCoversPages ==
    [][(PagesLive /\ op'.name = "decommit" /\ op'.outcome = "ok"
          /\ op'.arg[1] <= pages.len) =>
          /\ op'.range[1] % PAGE_SIZE = 0
          /\ op'.range[1] <= pages.ptr + op'.arg[1]
          /\ (op'.range[1] + op'.range[2]) % PAGE_SIZE = 0
          /\ op'.range[1] + op'.range[2]
                >= pages.ptr + Min(op'.arg[1] + op'.arg[2], pages.len)]_vars

\* the operations that consume the region: the permission transitions and
\* its drop
Consuming == Transitions \cup {"drop"}

\* C29 (as claimed): a permission transition or the drop of a region happens
\* only when no handle into it exists and no function pointer obtained from
\* a handle is still in use.
C29_NoHandleNoFnPtr ==
    [][(PagesLive /\ op'.name \in Consuming) =>
          (fnrefs.handles = 0 /\ fnrefs.raw = 0)]_vars

\* C29 (amended): while a handle exists the region stays live, where it is
\* and of its executable type; a permission transition or the drop of the
\* region happens only when no handle into it exists.
C29_NoHandleAtTransition ==
    [][/\ (PagesLive /\ op'.name \in Consuming) => fnrefs.handles = 0
       /\ (PagesLive /\ fnrefs.handles > 0 /\ fnrefs'.handles > 0) =>
             /\ pages' = pages
             /\ pages.perm.e
             /\ phase' \in {"live", "crashed"}
             /\ kernel'.maps[PlaceOf(pages.ptr)].live]_vars

\* two handles into one region exist, and a function was called through one
C29_Witness ==
    /\ PagesLive
    /\ fnrefs.handles = 2 /\ fnrefs.borrows = 2
    /\ op.name = "call" /\ op.outcome = "ok"

\* a kernel call among calls failed
Failed(calls) == \E i \in 1..Len(calls) : ~calls[i][2]

\* C30: every kernel failure of an allocate, remap or free call is surfaced
\* as a panic: Pages::new returns no region when the mapping call failed,
\* resize records no new base or length when the remap failed, and drop
\* panics when the unmap failed.
C30_KernelFailurePanics ==
    [][(obj' = "pages" /\ op'.name \in {"new", "resize", "drop"}) =>
          /\ Failed(op'.calls) => (op'.outcome = "panic" /\ phase' = "panicked")
          /\ (op'.name = "new" /\ Failed(op'.calls)) => pages' = NoPages
          /\ (op'.name = "resize" /\ ~op'.calls[1][2]) => pages' = pages
          /\ op'.outcome = "ok" =>
                /\ ~Failed(op'.calls)
                /\ phase' = IF op'.name = "drop" THEN "dropped" ELSE "live"]_vars

\* a resize whose remap call failed has panicked, the region as it was
C30_Witness ==
    /\ obj = "pages" /\ phase = "panicked"
    /\ op.name = "resize" /\ op.outcome = "panic"
    /\ op.calls[1] = <<"mremap", FALSE>>
    /\ pages.len = 4096

C32_CapacityNeverShrinks ==
    [][(VecLive /\ phase' = "live") =>
          capacity(pages', vec') >= capacity(pages, vec)]_vars

\* C33: a transition whose protection-change call succeeds returns
\* normally, whatever errno holds from earlier calls.
C33_SuccessNeverPanics ==
    [][(PagesLive /\ op'.name \in Transitions /\ op'.calls # <<>>
          /\ op'.calls[1] = Call(ProtectCall, TRUE)) =>
             (op'.outcome = "ok" /\ phase' = "live")]_vars

\* C34: decommit(beginning, length) panics, or the range it hands to the
\* kernel lies inside the region [base, base + len).
C34_DecommitStaysInside ==
    [][(PagesLive /\ op'.name = "decommit") =>
          \/ op'.outcome = "panic"
          \/ /\ op'.range[1] >= pages.ptr
             /\ op'.range[1] + op'.range[2] <= pages.ptr + pages.len]_vars

\* C35: a push that returns, called with len = capacity, has grown the
\* backing to exactly twice the capacity; called with len < capacity it has
\* made no kernel call and left the backing alone; either way the value is
\* at index old len and len is one more.
C35_PushDoubles ==
    [][(VecLive /\ op'.name = "push" /\ op'.outcome = "ok") =>
          /\ vec.len = capacity(pages, vec) =>
                /\ op'.calls # <<>>
                /\ capacity(pages', vec') = 2 * capacity(pages, vec)
          /\ vec.len < capacity(pages, vec) =>
                (op'.calls = <<>> /\ pages' = pages)
          /\ vec.len <= capacity(pages, vec) =>
                /\ vec'.len = vec.len + 1
                /\ vec'.slots[vec.len] = Elem(op'.arg)]_vars

Hints == {"decommit", "advise_use_soon", "advise_use_seq", "advise_use_rnd"}

\* C36: decommit and the three advise methods leave base address, byte
\* length and permission triple as they are and do not panic when the
\* kernel rejects their call; advise_use_soon(used) advises at most
\* min(len, used) bytes; resize leaves the permission triple as it is.
C36_HintsChangeNothing ==
    [][PagesLive =>
          /\ op'.name \in Hints =>
                /\ pages' = pages
                /\ (\E i \in DOMAIN op'.calls : ~op'.calls[i][2]) =>
                      op'.outcome = "ok"
          /\ op'.name = "advise_use_soon" =>
                /\ op'.outcome = "ok"
                /\ op'.range[2] <= Min(pages.len, op'.arg)
          /\ op'.name = "resize" => pages'.perm = pages.perm]_vars

\* the permissions a triple allows, as a set
Allowed(p) ==
    (IF p.r THEN {"r"} ELSE {}) \cup (IF p.w THEN {"w"} ELSE {})
    \cup (IF p.e THEN {"e"} ELSE {})

WinConstants ==
    {PAGE_NOACCESS, PAGE_READONLY, PAGE_READWRITE, PAGE_EXECUTE,
     PAGE_EXECUTE_READ, PAGE_EXECUTE_READWRITE}

\* the accesses a windows protection constant grants
Granted(c) ==
    CASE c = PAGE_NOACCESS -> {}
      [] c = PAGE_READONLY -> {"r"}
      [] c = PAGE_READWRITE -> {"r", "w"}
      [] c = PAGE_EXECUTE -> {"e"}
      [] c = PAGE_EXECUTE_READ -> {"r", "e"}
      [] c = PAGE_EXECUTE_READWRITE -> {"r", "w", "e"}

\* a triple windows has a constant for
Representable(p) == \E c \in WinConstants : Granted(c) = Allowed(p)

\* C37: for the triple of every live region, bitmask is exactly the union
\* of the bits Read=1, Write=2, Exec=4 and no other triple has the same
\* mask; flProtect is a windows constant that grants everything the triple
\* allows: the exact constant when there is one, and for write without
\* read (the triples windows has no constant for) the constant that adds
\* the fewest permissions, which are strictly more than the triple's.
C37_ProtectionGrantsTriple ==
    PagesLive =>
        LET p == pages.perm
        IN  /\ bitmask(p) \in 0..7
            /\ (bitmask(p) % 2 = 1) <=> p.r
            /\ ((bitmask(p) \div 2) % 2 = 1) <=> p.w
            /\ ((bitmask(p) \div 4) % 2 = 1) <=> p.e
            /\ \A q \in Perms : bitmask(q) = bitmask(p) => q = p
            /\ flProtect(p) \in WinConstants
            /\ Allowed(p) \subseteq Granted(flProtect(p))
            /\ Representable(p) <=> ~(p.w /\ ~p.r)
            /\ Representable(p) => Granted(flProtect(p)) = Allowed(p)
            /\ ~Representable(p) =>
                  /\ Granted(flProtect(p)) # Allowed(p)
                  /\ \A c \in WinConstants :
                        Allowed(p) \subseteq Granted(c) =>
                            Granted(flProtect(p)) \subseteq Granted(c)
            /\ (op.name = "new" /\ op.outcome = "ok") =>
                  kernel.maps[PlaceOf(pages.ptr)].prot =
                      IF platform = "unix" THEN bitmask(p) ELSE flProtect(p)

\* a region allocated on windows as write-and-execute without read: the
\* kernel was handed PAGE_EXECUTE_READWRITE
C37_Witness ==
    /\ PagesLive /\ platform = "windows"
    /\ op.name = "new"
    /\ pages.perm = [r |-> FALSE, w |-> TRUE, e |-> TRUE]
    /\ kernel.maps[PlaceOf(pages.ptr)].prot = PAGE_EXECUTE_READWRITE

====
